---------------------------- MODULE Spec2Model ----------------------------
(***************************************************************************)
(* Model of java-version-upgrade/scripts/analyze_java_dependencies.py:     *)
(* the version comparator, the three compatibility checks, the analysis    *)
(* orchestrator (DependencyAnalyzer) and main's exit code.                 *)
(*                                                                         *)
(* Python str values are TLA+ strings; a character of a string s is        *)
(* SubSeq(s, i, i).  Python's None is the reserved string None below,      *)
(* which no input domain of the model contains as a str.                   *)
(***************************************************************************)
EXTENDS Integers, Sequences, FiniteSets, TLC

VARIABLES
    pc,              \* position of main: "start", "constructed", "analyzed", "exited"
    files,           \* manifest files present in the project directory
    source_version,  \* args.source_version (None when the flag is absent)
    target_version,  \* args.target_version
    json,            \* args.json
    analyzer,        \* DependencyAnalyzer.analyzer: "maven", "gradle" or None
    build_type,      \* DependencyAnalyzer.build_type
    build_file,      \* GradleAnalyzer.build_file
    detected_version,\* analyze's local detected_version
    dependencies,    \* analyze's local dependencies
    checks_run,      \* the checks analyze has called
    results,         \* the dictionary analyze returned
    json_printed,    \* whether main printed json.dumps(results)
    exit_code,       \* the status main passed to sys.exit
    v1, v2,          \* arguments of _compare_versions
    cmp12, cmp21     \* _compare_versions(v1, v2) and _compare_versions(v2, v1)

vars == <<pc, files, source_version, target_version, json, analyzer, build_type,
          build_file, detected_version, dependencies, checks_run, results,
          json_printed, exit_code, v1, v2, cmp12, cmp21>>

mainVars == <<files, source_version, target_version, json, analyzer, build_type,
              build_file, detected_version, dependencies, checks_run, results,
              json_printed, exit_code>>

cmpVars == <<v1, v2, cmp12, cmp21>>

\* Python's None.
None == "<None>"

\* Python truthiness of an optional str: None and "" are falsy.
Truthy(s) == s # None /\ s # ""

(***************************************************************************)
(* Bounds of the model.                                                    *)
(***************************************************************************)
\* longest generated version string given to _compare_versions
MaxLen == 3
\* longest list of dependency declarations in a manifest
MaxDeps == 2

(***************************************************************************)
(* COMPATIBILITY_DB                                                        *)
(***************************************************************************)
COMPATIBILITY_DB ==
    ("11" :> [
        removed_modules |-> <<
            "javax.xml.bind:jaxb-api",
            "javax.activation:activation",
            "javax.xml.ws:jaxws-api",
            "javax.annotation:javax.annotation-api" >>,
        min_versions |->
            ("org.springframework.boot:spring-boot-starter-parent" :> "2.1.0") @@
            ("org.springframework:spring-core" :> "5.1.0") @@
            ("org.hibernate:hibernate-core" :> "5.3.0") @@
            ("junit:junit" :> "4.12") @@
            ("org.mockito:mockito-core" :> "2.23.0") ]) @@
    ("17" :> [
        min_versions |->
            ("org.springframework.boot:spring-boot-starter-parent" :> "2.5.0") @@
            ("org.springframework:spring-core" :> "5.3.0") @@
            ("org.hibernate:hibernate-core" :> "5.4.24") @@
            ("org.junit.jupiter:junit-jupiter" :> "5.7.0") @@
            ("org.mockito:mockito-core" :> "3.6.0") @@
            ("com.fasterxml.jackson.core:jackson-databind" :> "2.12.0"),
        recommended_versions |->
            ("org.springframework.boot:spring-boot-starter-parent" :> "3.0.0") @@
            ("jakarta.persistence:jakarta.persistence-api" :> "3.0.0") ]) @@
    ("21" :> [
        min_versions |->
            ("org.springframework.boot:spring-boot-starter-parent" :> "3.0.0") @@
            ("org.springframework:spring-core" :> "6.0.0") @@
            ("org.hibernate:hibernate-core" :> "6.1.0") @@
            ("org.junit.jupiter:junit-jupiter" :> "5.9.0") @@
            ("org.mockito:mockito-core" :> "4.0.0") @@
            ("com.fasterxml.jackson.core:jackson-databind" :> "2.14.0"),
        recommended_versions |->
            ("org.springframework.boot:spring-boot-starter-parent" :> "3.2.0") @@
            ("jakarta.persistence:jakarta.persistence-api" :> "3.1.0") ])

\* dict.get(key, default)
DictGet(d, key, default) == IF key \in DOMAIN d THEN d[key] ELSE default

\* the empty dict {}
EmptyDict == [k \in {} |-> ""]

(***************************************************************************)
(* DependencyAnalyzer._compare_versions                                    *)
(***************************************************************************)
Digits == {"0", "1", "2", "3", "4", "5", "6", "7", "8", "9"}

CharAt(s, i) == SubSeq(s, i, i)

DigitValue(c) ==
    CASE c = "0" -> 0 [] c = "1" -> 1 [] c = "2" -> 2 [] c = "3" -> 3
      [] c = "4" -> 4 [] c = "5" -> 5 [] c = "6" -> 6 [] c = "7" -> 7
      [] c = "8" -> 8 [] c = "9" -> 9

\* int(x) of a non-empty string of decimal digits
RECURSIVE ParseInt(_)
ParseInt(x) ==
    IF Len(x) = 0 THEN 0
    ELSE 10 * ParseInt(SubSeq(x, 1, Len(x) - 1)) + DigitValue(CharAt(x, Len(x)))

\* re.findall(r'\d+', v): a left-to-right scan from position i, run is the
\* digit run being read, found the runs already completed
RECURSIVE FindAllScan(_, _, _, _)
FindAllScan(v, i, run, found) ==
    IF i > Len(v)
    THEN IF run = "" THEN found ELSE Append(found, run)
    ELSE IF CharAt(v, i) \in Digits
         THEN FindAllScan(v, i + 1, run \o CharAt(v, i), found)
         ELSE FindAllScan(v, i + 1, "",
                          IF run = "" THEN found ELSE Append(found, run))

FindAllDigits(v) == FindAllScan(v, 1, "", <<>>)

\* [int(x) for x in re.findall(r'\d+', v)]
VersionParts(v) ==
    LET runs == FindAllDigits(v) IN [k \in 1..Len(runs) |-> ParseInt(runs[k])]

Min(a, b) == IF a < b THEN a ELSE b

\* ZipCompare without the length comparison: a strict prefix compares equal
RECURSIVE ZipCompareIgnoringLength(_, _, _)
ZipCompareIgnoringLength(parts1, parts2, k) ==
    IF k <= Min(Len(parts1), Len(parts2))
    THEN IF parts1[k] < parts2[k] THEN -1
         ELSE IF parts1[k] > parts2[k] THEN 1
         ELSE ZipCompareIgnoringLength(parts1, parts2, k + 1)
    ELSE 0

\* the loop over zip(parts1, parts2) from pair k on, then the length comparison
RECURSIVE ZipCompare(_, _, _)
ZipCompare(parts1, parts2, k) ==
    IF k <= Min(Len(parts1), Len(parts2))
    THEN IF parts1[k] < parts2[k] THEN -1
         ELSE IF parts1[k] > parts2[k] THEN 1
         ELSE ZipCompare(parts1, parts2, k + 1)
    ELSE IF Len(parts1) < Len(parts2) THEN -1
         ELSE IF Len(parts1) > Len(parts2) THEN 1
         ELSE 0

\* _compare_versions with the length test written <= : equal versions compare -1
_compare_versions_le(a, b) ==
    IF a = None \/ b = None
    THEN 0
    ELSE LET r == ZipCompare(VersionParts(a), VersionParts(b), 1)
         IN IF r = 0 THEN -1 ELSE r

\* re.findall raises TypeError for None; the bare except returns 0
_compare_versions(a, b) ==
    IF a = None \/ b = None
    THEN 0
    ELSE ZipCompare(VersionParts(a), VersionParts(b), 1)

(***************************************************************************)
(* Dependency                                                              *)
(***************************************************************************)
Dependency(group_id, artifact_id, version) ==
    [group_id |-> group_id, artifact_id |-> artifact_id, version |-> version,
     full_name |-> group_id \o ":" \o artifact_id]

\* Dependency.__repr__, which str(dep) uses
Dependency_repr(dep) ==
    dep.full_name \o (IF Truthy(dep.version) THEN ":" \o dep.version ELSE "")

(***************************************************************************)
(* The manifests, as the adapters see them.  A pom.xml is what the element *)
(* lookups of MavenAnalyzer find in it, a Gradle build file what the       *)
(* regular expressions of GradleAnalyzer match in it; readable is FALSE    *)
(* when parsing or reading the file raises.  A declaration is the          *)
(* (groupId, artifactId, version) of one dependency element or match.      *)
(***************************************************************************)
Declaration(group_id, artifact_id, version) ==
    [group_id |-> group_id, artifact_id |-> artifact_id, version |-> version]

Declarations ==
    { Declaration("org.springframework.boot", "spring-boot-starter-parent", None),
      Declaration("org.springframework.boot", "spring-boot-starter-parent", "2.0.0"),
      Declaration("org.springframework.boot", "spring-boot-starter-parent", "2.5.0"),
      Declaration("org.springframework.boot", "spring-boot-starter-parent", "3.0.0"),
      Declaration("javax.xml.bind", "jaxb-api", None),
      Declaration("javax.xml.bind", "jaxb-api", "2.3.1") }

RECURSIVE ListsUpTo(_, _)
ListsUpTo(S, n) ==
    IF n = 0 THEN {<<>>}
    ELSE LET L == ListsUpTo(S, n - 1) IN L \cup {Append(l, x) : l \in L, x \in S}

UnreadablePom ==
    [readable |-> FALSE, compiler_source |-> None, java_version |-> None,
     plugin_source |-> None, dependencies |-> <<>>, parent |-> <<>>]

\* parent is the sequence of the 0 or 1 parent elements of the pom
Poms ==
    {UnreadablePom} \cup
    { pom \in [readable : {TRUE},
               compiler_source : {None, "11"},
               java_version : {None, "1.8"},
               plugin_source : {None, "7"},
               dependencies : ListsUpTo(Declarations, MaxDeps),
               parent : {<<>>,
                         <<Declaration("org.springframework.boot",
                                       "spring-boot-starter-parent", "2.0.0")>>}] :
        Len(pom.dependencies) + Len(pom.parent) <= MaxDeps }

UnreadableBuild ==
    [readable |-> FALSE, source_compatibility |-> None, java_version |-> None,
     language_version |-> None, dependencies |-> <<>>]

GradleBuilds ==
    {UnreadableBuild} \cup
    [readable : {TRUE},
     source_compatibility : {None, "11"},
     java_version : {None, "8"},
     language_version : {None, "7"},
     dependencies : ListsUpTo(Declarations, MaxDeps)]

(***************************************************************************)
(* MavenAnalyzer                                                           *)
(***************************************************************************)
Maven_is_applicable(fs) == "pom.xml" \in fs

Maven_get_current_java_version(pom) ==
    IF ~pom.readable THEN "unknown"
    ELSE IF Truthy(pom.compiler_source) THEN pom.compiler_source
    ELSE IF Truthy(pom.java_version) THEN pom.java_version
    ELSE IF Truthy(pom.plugin_source) THEN pom.plugin_source
    ELSE "unknown"

\* the direct dependencies in document order, then the parent
Maven_get_dependencies(pom) ==
    IF ~pom.readable THEN <<>>
    ELSE LET decls == pom.dependencies \o pom.parent
         IN [k \in 1..Len(decls) |->
                Dependency(decls[k].group_id, decls[k].artifact_id, decls[k].version)]

(***************************************************************************)
(* GradleAnalyzer                                                          *)
(***************************************************************************)
\* GradleAnalyzer.__init__: the first of build.gradle.kts, build.gradle that exists
Gradle_build_file(fs) ==
    IF "build.gradle.kts" \in fs THEN "build.gradle.kts"
    ELSE IF "build.gradle" \in fs THEN "build.gradle"
    ELSE None

Gradle_is_applicable(bf) == bf # None

Gradle_get_current_java_version(bf, build) ==
    IF bf = None THEN "unknown"
    ELSE IF ~build.readable THEN "unknown"
    ELSE IF build.source_compatibility # None THEN build.source_compatibility
    ELSE IF build.java_version # None THEN build.java_version
    ELSE IF build.language_version # None THEN build.language_version
    ELSE "unknown"

Gradle_get_dependencies(bf, build) ==
    IF bf = None THEN <<>>
    ELSE IF ~build.readable THEN <<>>
    ELSE [k \in 1..Len(build.dependencies) |->
            Dependency(build.dependencies[k].group_id,
                       build.dependencies[k].artifact_id,
                       IF Truthy(build.dependencies[k].version)
                       THEN build.dependencies[k].version ELSE None)]

(***************************************************************************)
(* DependencyAnalyzer: the three checks                                    *)
(***************************************************************************)
\* BelowMinimum with <= 0 for < 0
BelowOrAtMinimum(dep, min_version) ==
    Truthy(dep.version) /\ _compare_versions(dep.version, min_version) <= 0

\* line 342: dep.version and self._compare_versions(dep.version, min_version) < 0
BelowMinimum(dep, min_version) ==
    Truthy(dep.version) /\ _compare_versions(dep.version, min_version) < 0

Issue(dep, min_version) ==
    [dependency |-> Dependency_repr(dep), current_version |-> dep.version,
     min_version |-> min_version, severity |-> "high"]

\* CompatibilityLoop that puts each new issue in front (issues.insert(0, ...))
RECURSIVE CompatibilityLoopPrepend(_, _, _, _)
CompatibilityLoopPrepend(deps, min_versions, i, issues) ==
    IF i > Len(deps) THEN issues
    ELSE LET dep == deps[i]
         IN CompatibilityLoopPrepend(deps, min_versions, i + 1,
                IF /\ dep.full_name \in DOMAIN min_versions
                   /\ BelowMinimum(dep, min_versions[dep.full_name])
                THEN <<Issue(dep, min_versions[dep.full_name])>> \o issues
                ELSE issues)

\* the loop of _check_compatibility from entry i on
RECURSIVE CompatibilityLoop(_, _, _, _)
CompatibilityLoop(deps, min_versions, i, issues) ==
    IF i > Len(deps) THEN issues
    ELSE LET dep == deps[i]
         IN CompatibilityLoop(deps, min_versions, i + 1,
                IF /\ dep.full_name \in DOMAIN min_versions
                   /\ BelowMinimum(dep, min_versions[dep.full_name])
                THEN Append(issues, Issue(dep, min_versions[dep.full_name]))
                ELSE issues)

\* _check_compatibility falling back to the newest rule set for an unknown target
_check_compatibility_fallback(deps, target) ==
    CompatibilityLoop(deps,
        DictGet(COMPATIBILITY_DB[IF target \in DOMAIN COMPATIBILITY_DB
                                 THEN target ELSE "21"],
                "min_versions", EmptyDict), 1, <<>>)

_check_compatibility(deps, target) ==
    IF target \notin DOMAIN COMPATIBILITY_DB THEN <<>>
    ELSE CompatibilityLoop(deps,
             DictGet(COMPATIBILITY_DB[target], "min_versions", EmptyDict), 1, <<>>)

\* DepNames built from str(dep), which carries the version
DepNamesWithVersion(deps) == {Dependency_repr(deps[k]) : k \in 1..Len(deps)}

\* dep_names = {dep.full_name for dep in dependencies}
DepNames(deps) == {deps[k].full_name : k \in 1..Len(deps)}

\* the loop of _check_removed_modules from module i on
RECURSIVE RemovedLoop(_, _, _, _)
RemovedLoop(removed_modules, dep_names, i, removed) ==
    IF i > Len(removed_modules) THEN removed
    ELSE RemovedLoop(removed_modules, dep_names, i + 1,
             IF removed_modules[i] \notin dep_names
             THEN Append(removed, removed_modules[i])
             ELSE removed)

_check_removed_modules(deps, target) ==
    IF target \notin DOMAIN COMPATIBILITY_DB THEN <<>>
    ELSE RemovedLoop(DictGet(COMPATIBILITY_DB[target], "removed_modules", <<>>),
                     DepNames(deps), 1, <<>>)

\* BelowRecommended without the test for a missing version
BelowRecommendedDeclared(dep, rec_version) ==
    _compare_versions(dep.version, rec_version) < 0

\* line 380: not dep.version or self._compare_versions(dep.version, rec_version) < 0
BelowRecommended(dep, rec_version) ==
    ~Truthy(dep.version) \/ _compare_versions(dep.version, rec_version) < 0

Recommendation(dep, rec_version, target) ==
    [dependency |-> dep.full_name,
     current_version |-> IF Truthy(dep.version) THEN dep.version ELSE "unknown",
     recommended_version |-> rec_version,
     reason |-> "Better Java " \o target \o " support"]

\* the loop of _get_recommendations from entry i on
RECURSIVE RecommendationLoop(_, _, _, _, _)
RecommendationLoop(deps, recommended, target, i, recommendations) ==
    IF i > Len(deps) THEN recommendations
    ELSE LET dep == deps[i]
         IN RecommendationLoop(deps, recommended, target, i + 1,
                IF /\ dep.full_name \in DOMAIN recommended
                   /\ BelowRecommended(dep, recommended[dep.full_name])
                THEN Append(recommendations,
                            Recommendation(dep, recommended[dep.full_name], target))
                ELSE recommendations)

_get_recommendations(deps, target) ==
    IF target \notin DOMAIN COMPATIBILITY_DB THEN <<>>
    ELSE RecommendationLoop(deps,
             DictGet(COMPATIBILITY_DB[target], "recommended_versions", EmptyDict),
             target, 1, <<>>)

(***************************************************************************)
(* DependencyAnalyzer.__init__, analyze and main                           *)
(***************************************************************************)
\* SelectAnalyzer with the two adapters tried in the other order
SelectAnalyzerGradleFirst(fs) ==
    IF Gradle_is_applicable(Gradle_build_file(fs)) THEN "gradle"
    ELSE IF Maven_is_applicable(fs) THEN "maven"
    ELSE None

\* lines 277-285: the analyzer selected
SelectAnalyzer(fs) ==
    IF Maven_is_applicable(fs) THEN "maven"
    ELSE IF Gradle_is_applicable(Gradle_build_file(fs)) THEN "gradle"
    ELSE None

BuildTypeOf(a) ==
    IF a = "maven" THEN "Maven" ELSE IF a = "gradle" THEN "Gradle" ELSE None

\* line 302: self.source_version or detected_version
CurrentVersion(source, detected) == IF Truthy(source) THEN source ELSE detected

\* ExitStatus that also counts the removed-module warnings
ExitStatusCountingRemoved(res) ==
    IF "error" \in DOMAIN res THEN 1
    ELSE IF Len(DictGet(res, "compatibility_issues", <<>>))
            + Len(DictGet(res, "removed_modules", <<>>)) > 0 THEN 1
    ELSE 0

\* lines 511-518: the status main exits with
ExitStatus(res) ==
    IF "error" \in DOMAIN res THEN 1
    ELSE IF Len(DictGet(res, "compatibility_issues", <<>>)) > 0 THEN 1
    ELSE 0

ErrorResult ==
    [error |-> "No Maven (pom.xml) or Gradle (build.gradle) file found",
     build_type |-> None]

AnalysisResult(bt, current, target, deps, issues, removed, recommendations) ==
    [build_type |-> bt, current_version |-> current, target_version |-> target,
     total_dependencies |-> Len(deps), compatibility_issues |-> issues,
     removed_modules |-> removed, recommendations |-> recommendations]

ManifestFiles == {"pom.xml", "build.gradle.kts", "build.gradle"}

SourceVersions == {None, "", "8"}

TargetVersions == {"11", "17", "21", "8"}

Init ==
    /\ pc = "start"
    /\ files \in SUBSET ManifestFiles
    /\ source_version \in SourceVersions
    /\ target_version \in TargetVersions
    /\ json \in BOOLEAN
    /\ analyzer = None /\ build_type = None /\ build_file = None
    /\ detected_version = None /\ dependencies = <<>> /\ checks_run = {}
    /\ results = <<>> /\ json_printed = FALSE /\ exit_code = None
    /\ v1 = None /\ v2 = None /\ cmp12 = None /\ cmp21 = None

\* DependencyAnalyzer.__init__
Construct ==
    /\ pc = "start"
    /\ build_file' = Gradle_build_file(files)
    /\ analyzer' = SelectAnalyzer(files)
    /\ build_type' = BuildTypeOf(SelectAnalyzer(files))
    /\ pc' = "constructed"
    /\ UNCHANGED <<files, source_version, target_version, json, detected_version,
                   dependencies, checks_run, results, json_printed, exit_code>>
    /\ UNCHANGED cmpVars

\* DependencyAnalyzer.analyze, the manifest it reads being its input
Analyze ==
    /\ pc = "constructed"
    /\ IF analyzer = None
       THEN /\ results' = ErrorResult
            /\ UNCHANGED <<detected_version, dependencies, checks_run>>
       ELSE \E manifest \in (IF analyzer = "maven" THEN Poms ELSE GradleBuilds) :
              LET detected == IF analyzer = "maven"
                              THEN Maven_get_current_java_version(manifest)
                              ELSE Gradle_get_current_java_version(build_file, manifest)
                  deps == IF analyzer = "maven"
                          THEN Maven_get_dependencies(manifest)
                          ELSE Gradle_get_dependencies(build_file, manifest)
              IN /\ detected_version' = detected
                 /\ dependencies' = deps
                 /\ checks_run' = {"_check_compatibility", "_check_removed_modules",
                                   "_get_recommendations"}
                 /\ results' = AnalysisResult(build_type,
                                   CurrentVersion(source_version, detected),
                                   target_version, deps,
                                   _check_compatibility(deps, target_version),
                                   _check_removed_modules(deps, target_version),
                                   _get_recommendations(deps, target_version))
    /\ pc' = "analyzed"
    /\ UNCHANGED <<files, source_version, target_version, json, analyzer,
                   build_type, build_file, json_printed, exit_code>>
    /\ UNCHANGED cmpVars

\* main after analyze: the optional JSON dump, then sys.exit
Exit ==
    /\ pc = "analyzed"
    /\ json_printed' = json
    /\ exit_code' = ExitStatus(results)
    /\ pc' = "exited"
    /\ UNCHANGED <<files, source_version, target_version, json, analyzer,
                   build_type, build_file, detected_version, dependencies,
                   checks_run, results>>
    /\ UNCHANGED cmpVars

Next == Construct \/ Analyze \/ Exit

Spec == Init /\ [][Next]_vars

(***************************************************************************)
(* The comparator as a pure function: every pair of bounded inputs.        *)
(***************************************************************************)
Alphabet == {"0", "1", "9", ".", "a"}

RECURSIVE StringsUpTo(_)
StringsUpTo(n) ==
    IF n = 0 THEN {""}
    ELSE LET S == StringsUpTo(n - 1) IN S \cup {s \o c : s \in S, c \in Alphabet}

\* version strings of the knowledge base and of the documented examples
KnownVersions == {"5.1.0", "5.1", "2.12.0", "2.12", "4.12", "5.4.24", "2.23.0"}

CompareInputs == StringsUpTo(MaxLen) \cup {None}

InitCmp ==
    /\ pc = "compare"
    /\ \/ v1 \in CompareInputs /\ v2 \in CompareInputs
       \/ v1 \in KnownVersions /\ v2 \in KnownVersions
    /\ cmp12 = None /\ cmp21 = None
    /\ files = {} /\ source_version = None /\ target_version = None
    /\ json = FALSE /\ analyzer = None /\ build_type = None /\ build_file = None
    /\ detected_version = None /\ dependencies = <<>> /\ checks_run = {}
    /\ results = None /\ json_printed = FALSE /\ exit_code = None

CompareVersions ==
    /\ pc = "compare"
    /\ cmp12' = _compare_versions(v1, v2)
    /\ cmp21' = _compare_versions(v2, v1)
    /\ pc' = "compared"
    /\ UNCHANGED <<v1, v2>>
    /\ UNCHANGED mainVars

NextCmp == CompareVersions

SpecCmp == InitCmp /\ [][NextCmp]_vars

(***************************************************************************)
(* Definitions the properties are stated with.                             *)
(***************************************************************************)
Analyzed == pc \in {"analyzed", "exited"}

Succeeded == Analyzed /\ "error" \notin DOMAIN results

Range(f) == {f[k] : k \in DOMAIN f}

KnownTarget == target_version \in DOMAIN COMPATIBILITY_DB

\* the rules of one kind the knowledge base holds for the target version
MinVersionsOfTarget ==
    IF KnownTarget /\ "min_versions" \in DOMAIN COMPATIBILITY_DB[target_version]
    THEN COMPATIBILITY_DB[target_version].min_versions ELSE EmptyDict

RemovedModulesOfTarget ==
    IF KnownTarget /\ "removed_modules" \in DOMAIN COMPATIBILITY_DB[target_version]
    THEN COMPATIBILITY_DB[target_version].removed_modules ELSE <<>>

RecommendedOfTarget ==
    IF KnownTarget /\ "recommended_versions" \in DOMAIN COMPATIBILITY_DB[target_version]
    THEN COMPATIBILITY_DB[target_version].recommended_versions ELSE EmptyDict

\* the identity group:artifact of the k-th dependency, version ignored
Identity(k) == dependencies[k].group_id \o ":" \o dependencies[k].artifact_id

Declared(k) == dependencies[k].version # None

\* the entries of the dependency list that must produce an Issue
IssueEntries ==
    {k \in 1..Len(dependencies) :
        /\ Identity(k) \in DOMAIN MinVersionsOfTarget
        /\ Declared(k)
        /\ _compare_versions(dependencies[k].version,
                             MinVersionsOfTarget[Identity(k)]) < 0}

\* the entries of the dependency list that must produce a Recommendation
RecommendationEntries ==
    {k \in 1..Len(dependencies) :
        /\ Identity(k) \in DOMAIN RecommendedOfTarget
        /\ \/ ~Declared(k)
           \/ _compare_versions(dependencies[k].version,
                                RecommendedOfTarget[Identity(k)]) < 0}

\* the entries of the dependency list with identity id
EntriesOf(id) == {k \in 1..Len(dependencies) : Identity(k) = id}

Recommended(id) ==
    \E j \in 1..Len(results.recommendations) :
        results.recommendations[j].dependency = id

(***************************************************************************)
(* C1: main exits with 1 exactly when the result has an error field (no    *)
(* manifest was found) or a non-empty compatibility_issues list, and with  *)
(* 0 otherwise; removed_modules, recommendations and --json play no part.  *)
(***************************************************************************)
C1_ExitCode ==
    pc = "exited" =>
        /\ exit_code \in {0, 1}
        /\ ("error" \in DOMAIN results) <=> (files = {})
        /\ exit_code = 1 <=>
              \/ "error" \in DOMAIN results
              \/ /\ "compatibility_issues" \in DOMAIN results
                 /\ results.compatibility_issues # <<>>

C1_Witness ==
    /\ pc = "exited" /\ exit_code = 0 /\ json /\ json_printed
    /\ "error" \notin DOMAIN results
    /\ Len(results.removed_modules) = 4

(***************************************************************************)
(* C2: for a target version of the knowledge base, the minimum-version     *)
(* check emits one Issue of severity "high" for exactly the list entries   *)
(* whose identity is in min_versions, that declare a version, and whose    *)
(* version compares below the minimum; an entry without a version or with  *)
(* an identity outside min_versions produces none.                         *)
(***************************************************************************)
C2_MinimumVersionIssues ==
    (Succeeded /\ KnownTarget) =>
        LET issues == results.compatibility_issues
            IssueOf(j, k) ==
                /\ issues[j].dependency = Identity(k) \o ":" \o dependencies[k].version
                /\ issues[j].current_version = dependencies[k].version
                /\ issues[j].min_version = MinVersionsOfTarget[Identity(k)]
            entries == IssueEntries
        IN /\ Len(issues) = Cardinality(entries)
           /\ \A j \in 1..Len(issues) :
                 /\ issues[j].severity = "high"
                 /\ \E k \in entries : IssueOf(j, k)
           /\ \A k \in entries : \E j \in 1..Len(issues) : IssueOf(j, k)

C2_Witness ==
    /\ Succeeded /\ target_version = "17"
    /\ Len(dependencies) = 2
    /\ dependencies[1].full_name = "org.springframework.boot:spring-boot-starter-parent"
    /\ dependencies[1].version = None
    /\ dependencies[2].full_name = "org.springframework.boot:spring-boot-starter-parent"
    /\ dependencies[2].version = "2.0.0"
    /\ Len(results.compatibility_issues) = 1
    /\ results.compatibility_issues[1].current_version = "2.0.0"

(***************************************************************************)
(* C3: for a target version of the knowledge base, the removed-module      *)
(* check returns exactly the identities of removed_modules that are the    *)
(* identity of no dependency of the list, each once; a removed module the  *)
(* project declares, with or without a version, is not reported.           *)
(***************************************************************************)
C3_RemovedModules ==
    (Succeeded /\ KnownTarget) =>
        LET removed == results.removed_modules
            missing == {m \in Range(RemovedModulesOfTarget) : EntriesOf(m) = {}}
        IN /\ Range(removed) = missing
           /\ Len(removed) = Cardinality(missing)

C3_Witness ==
    /\ Succeeded /\ target_version = "11"
    /\ \E k \in 1..Len(dependencies) :
          /\ dependencies[k].full_name = "javax.xml.bind:jaxb-api"
          /\ dependencies[k].version = "2.3.1"
    /\ Len(results.removed_modules) = 3
    /\ "javax.xml.bind:jaxb-api" \notin Range(results.removed_modules)

(***************************************************************************)
(* C4, as claimed: every identity of recommended_versions for the target   *)
(* gets a Recommendation if the project has no declared version for it or  *)
(* a declared version below the recommended one, and none if its declared  *)
(* versions are all at or above the recommended one.                       *)
(***************************************************************************)
C4_RecommendationPerIdentity ==
    (Succeeded /\ KnownTarget) =>
        \A id \in DOMAIN RecommendedOfTarget :
            LET below(k) == Declared(k) /\
                    _compare_versions(dependencies[k].version,
                                      RecommendedOfTarget[id]) < 0
            IN /\ ( \/ \A k \in EntriesOf(id) : ~Declared(k)
                    \/ \E k \in EntriesOf(id) : below(k) ) => Recommended(id)
               /\ ( /\ EntriesOf(id) # {}
                    /\ \A k \in EntriesOf(id) : Declared(k) /\ ~below(k) )
                  => ~Recommended(id)

(***************************************************************************)
(* C4, amended: the recommendation check emits one Recommendation for      *)
(* exactly the list entries whose identity is in recommended_versions for  *)
(* the target and that declare no version or a version below the           *)
(* recommended one; an identity of recommended_versions that no entry of   *)
(* the list has gets no Recommendation.                                    *)
(***************************************************************************)
C4_RecommendationPerEntry ==
    (Succeeded /\ KnownTarget) =>
        LET recs == results.recommendations
            RecOf(j, k) ==
                /\ recs[j].dependency = Identity(k)
                /\ recs[j].current_version =
                      (IF Declared(k) THEN dependencies[k].version ELSE "unknown")
                /\ recs[j].recommended_version = RecommendedOfTarget[Identity(k)]
            entries == RecommendationEntries
        IN /\ Len(recs) = Cardinality(entries)
           /\ \A j \in 1..Len(recs) : \E k \in entries : RecOf(j, k)
           /\ \A k \in entries : \E j \in 1..Len(recs) : RecOf(j, k)
           /\ \A id \in DOMAIN RecommendedOfTarget :
                 EntriesOf(id) = {} => ~Recommended(id)

C4_Witness ==
    /\ Succeeded /\ target_version = "17"
    /\ Len(dependencies) = 2
    /\ dependencies[1].full_name = "org.springframework.boot:spring-boot-starter-parent"
    /\ dependencies[1].version = "2.5.0"
    /\ dependencies[2].full_name = "org.springframework.boot:spring-boot-starter-parent"
    /\ dependencies[2].version = None
    /\ Len(results.recommendations) = 2
    /\ results.recommendations[1].current_version = "2.5.0"
    /\ results.recommendations[1].recommended_version = "3.0.0"
    /\ results.recommendations[2].current_version = "unknown"
    /\ ~Recommended("jakarta.persistence:jakarta.persistence-api")

(***************************************************************************)
(* C5, as claimed: _compare_versions returns 0 whenever either input is    *)
(* absent or is a string without any digit.                                *)
(***************************************************************************)
NoNumericSegment(v) ==
    v = None \/ \A i \in 1..Len(v) : CharAt(v, i) \notin Digits

C5_MalformedComparesEqual ==
    pc = "compared" =>
        /\ cmp12 \in {-1, 0, 1}
        /\ (NoNumericSegment(v1) \/ NoNumericSegment(v2)) => cmp12 = 0

(***************************************************************************)
(* C6: for two version strings, _compare_versions returns the value in     *)
(* {-1, 0, 1} of the lexicographic comparison of their sequences of        *)
(* integers, the maximal digit runs in order: the first differing integer  *)
(* decides, and a strict prefix is the smaller sequence.                   *)
(***************************************************************************)
\* the positions where a maximal digit run of v starts
RunStarts(v) ==
    {i \in 1..Len(v) :
        CharAt(v, i) \in Digits /\ (i = 1 \/ CharAt(v, i - 1) \notin Digits)}

\* the last position of the maximal digit run of v that starts at i
RunEnd(v, i) ==
    CHOOSE j \in i..Len(v) :
        /\ \A k \in i..j : CharAt(v, k) \in Digits
        /\ j = Len(v) \/ CharAt(v, j + 1) \notin Digits

RECURSIVE Pow10(_)
Pow10(n) == IF n = 0 THEN 1 ELSE 10 * Pow10(n - 1)

RECURSIVE SumOver(_, _, _)
SumOver(v, i, j) ==
    IF i > j THEN 0
    ELSE DigitValue(CharAt(v, i)) * Pow10(j - i) + SumOver(v, i + 1, j)

\* the integers of the maximal digit runs of v, in order
IntegerSequence(v) ==
    LET starts == RunStarts(v)
        nth(n) == CHOOSE i \in starts : Cardinality({h \in starts : h < i}) = n - 1
    IN [n \in 1..Cardinality(starts) |-> SumOver(v, nth(n), RunEnd(v, nth(n)))]

Lexicographic(s, t) ==
    LET differ == {k \in 1..Min(Len(s), Len(t)) : s[k] # t[k]}
    IN IF differ # {}
       THEN LET first == CHOOSE k \in differ : \A h \in differ : k <= h
            IN IF s[first] < t[first] THEN -1 ELSE 1
       ELSE IF Len(s) < Len(t) THEN -1
       ELSE IF Len(s) > Len(t) THEN 1
       ELSE 0

C6_LexicographicOrder ==
    (pc = "compared" /\ v1 # None /\ v2 # None) =>
        /\ cmp12 \in {-1, 0, 1}
        /\ cmp12 = Lexicographic(IntegerSequence(v1), IntegerSequence(v2))
        /\ (v1 = "5.1.0" /\ v2 = "5.1") => cmp12 = 1
        /\ (v1 = "2.12.0" /\ v2 = "2.12") => cmp12 = 1
        /\ (v1 = "5.1.0" /\ v2 = "5.1.0") => cmp12 = 0

C6_Witness ==
    pc = "compared" /\ v1 = "2.12.0" /\ v2 = "2.12" /\ cmp12 = 1

(***************************************************************************)
(* C7: for version strings a and b that each hold a digit,                 *)
(* compare(a, b) = -compare(b, a), and compare(v, v) = 0.                  *)
(***************************************************************************)
Parseable(v) == v # None /\ \E i \in 1..Len(v) : CharAt(v, i) \in Digits

C7_Antisymmetric ==
    (pc = "compared" /\ Parseable(v1) /\ Parseable(v2)) =>
        /\ cmp12 = -cmp21
        /\ v1 = v2 => cmp12 = 0

C7_Witness ==
    pc = "compared" /\ v1 = "1.9" /\ v2 = "1.0" /\ cmp12 = 1 /\ cmp21 = -1

(***************************************************************************)
(* C8: when the target version has no entry in the knowledge base, the     *)
(* three checks return empty collections for every dependency list, and    *)
(* main exits with 0 when a manifest exists.                               *)
(***************************************************************************)
C8_UnknownTarget ==
    (Succeeded /\ ~KnownTarget) =>
        /\ results.compatibility_issues = <<>>
        /\ results.removed_modules = <<>>
        /\ results.recommendations = <<>>
        /\ pc = "exited" => exit_code = 0

C8_Witness ==
    /\ pc = "exited" /\ target_version = "8" /\ exit_code = 0
    /\ checks_run # {}
    /\ Len(dependencies) = 2
    /\ dependencies[1].full_name = "org.springframework.boot:spring-boot-starter-parent"
    /\ dependencies[1].version = "2.0.0"
    /\ results.total_dependencies = 2
    /\ results.compatibility_issues = <<>>

(***************************************************************************)
(* C9: the orchestrator selects Maven whenever pom.xml exists, Gradle only *)
(* when pom.xml does not exist and a Gradle build file does; with neither  *)
(* analyze runs no check and returns a result with an error field and      *)
(* build_type None.                                                        *)
(***************************************************************************)
C9_AdapterSelection ==
    pc # "start" =>
        LET gradleFile == files \cap {"build.gradle.kts", "build.gradle"} # {}
        IN /\ analyzer = "maven" <=> "pom.xml" \in files
           /\ analyzer = "gradle" <=> ("pom.xml" \notin files /\ gradleFile)
           /\ analyzer = None <=> files = {}
           /\ build_type = (IF analyzer = "maven" THEN "Maven"
                            ELSE IF analyzer = "gradle" THEN "Gradle" ELSE None)
           /\ (Analyzed /\ files # {}) =>
                 /\ "error" \notin DOMAIN results
                 /\ results.build_type = build_type
                 /\ Cardinality(checks_run) = 3
           /\ (Analyzed /\ files = {}) =>
                 /\ checks_run = {}
                 /\ DOMAIN results = {"error", "build_type"}
                 /\ results.build_type = None

C9_Witness ==
    /\ pc = "analyzed" /\ files = {"pom.xml", "build.gradle"}
    /\ analyzer = "maven" /\ results.build_type = "Maven"

(***************************************************************************)
(* C10, as claimed: in a successful analysis current_version is the        *)
(* --source-version override whenever one was supplied, whatever the       *)
(* adapter detects, and else the adapter's detected version (the adapters  *)
(* return "unknown" when detection fails).                                 *)
(***************************************************************************)
C10_OverrideTakesPrecedence ==
    Succeeded =>
        /\ source_version # None => results.current_version = source_version
        /\ source_version = None => results.current_version = detected_version

(***************************************************************************)
(* C11: the Issues and the Recommendations appear in the order in which    *)
(* the dependencies that caused them appear in the dependency list, one    *)
(* per qualifying entry, duplicates included; the removed-module results   *)
(* appear in the order of the knowledge base's list for the target.        *)
(***************************************************************************)
\* the n-th smallest element of the set S of integers
NthOf(S, n) == CHOOSE i \in S : Cardinality({h \in S : h < i}) = n - 1

\* the positions of the knowledge base's removed modules the project lacks
MissingModulePositions ==
    {m \in 1..Len(RemovedModulesOfTarget) :
        EntriesOf(RemovedModulesOfTarget[m]) = {}}

C11_ResultOrder ==
    (Succeeded /\ KnownTarget) =>
        LET issues == results.compatibility_issues
            recs == results.recommendations
            removed == results.removed_modules
            issueEntries == IssueEntries
            recEntries == RecommendationEntries
            modules == RemovedModulesOfTarget
            missing == MissingModulePositions
        IN /\ Len(issues) = Cardinality(issueEntries)
           /\ \A j \in 1..Len(issues) :
                 LET k == NthOf(issueEntries, j)
                 IN /\ issues[j].current_version = dependencies[k].version
                    /\ issues[j].dependency =
                          Identity(k) \o ":" \o dependencies[k].version
           /\ Len(recs) = Cardinality(recEntries)
           /\ \A j \in 1..Len(recs) :
                 LET k == NthOf(recEntries, j)
                 IN /\ recs[j].dependency = Identity(k)
                    /\ recs[j].current_version =
                          (IF Declared(k) THEN dependencies[k].version
                           ELSE "unknown")
           /\ Len(removed) = Cardinality(missing)
           /\ \A j \in 1..Len(removed) : removed[j] = modules[NthOf(missing, j)]

C11_Witness ==
    /\ Succeeded /\ target_version = "21"
    /\ Len(dependencies) = 2
    /\ dependencies[1].version = "2.5.0"
    /\ dependencies[2].version = "2.0.0"
    /\ Len(results.compatibility_issues) = 2
    /\ results.compatibility_issues[1].current_version = "2.5.0"
    /\ results.compatibility_issues[2].current_version = "2.0.0"
    /\ Len(results.recommendations) = 2
    /\ results.recommendations[1].current_version = "2.5.0"
    /\ results.recommendations[2].current_version = "2.0.0"

=============================================================================
